---- MODULE Spec2Model ----
(***************************************************************************)
(* Matrix factorisation recommender (cornac/models/mf/recom_mf.pyx).       *)
(*                                                                         *)
(* One MF instance: its configuration, its attributes, and the position    *)
(* of a running fit() together with fit()'s local variables.  A double is  *)
(* modelled in fixed point: the integer n stands for n / Scale, products   *)
(* are rounded down to the next multiple of 1 / Scale.  Item and user      *)
(* indices are 0-based as in the code; returned rankings are sequences.    *)
(***************************************************************************)
EXTENDS Integers, Sequences, FiniteSets, TLC

VARIABLES
    k, max_iter, learning_rate, lambda_reg, use_bias, early_stop, \* configuration
    attrs,        \* names of the instance attributes that have been assigned
    fitted, train_set, u_factors, i_factors, u_biases, i_biases, \* attributes
    pc,           \* position of the running fit(), "idle" when none runs
    loc_u_factors, loc_i_factors, loc_u_biases, loc_i_biases,    \* fit() locals
    loss, last_loss, iter, pos, error,
    everCompleted, \* history: some fit() has returned normally
    lossLog,       \* history: epoch losses of the running fit(), in order
    visits,        \* history: how often each interaction was processed this epoch
    epochFactors,  \* history: local factors at the end of the last epoch
    ret            \* the last call made on the instance and its outcome

config == <<k, max_iter, learning_rate, lambda_reg, use_bias, early_stop>>
model  == <<attrs, fitted, train_set, u_factors, i_factors, u_biases, i_biases>>
locals == <<loc_u_factors, loc_i_factors, loc_u_biases, loc_i_biases,
            loss, last_loss, iter, pos, error>>
hist   == <<everCompleted, lossLog, visits, epochFactors>>
vars   == <<config, model, pc, locals, hist, ret>>

----------------------------------------------------------------------------
(* Bounds of the model *)
MaxK == 1
MaxIter == 2

(* Resolution of the fixed-point numbers: One stands for 1.0 *)
Scale == 4
One == Scale

(* The early-stop threshold 1e-5 = EpsNum / EpsDen; 0.5 = 1 / HalfDen *)
EpsNum == 1
EpsDen == 100000
HalfDen == 2

----------------------------------------------------------------------------
(* Arithmetic helpers *)
Abs(x) == IF x < 0 THEN -x ELSE x

Max(a, b) == IF a >= b THEN a ELSE b

RECURSIVE SetMax(_)
SetMax(S) == LET x == CHOOSE y \in S : TRUE
             IN  IF S = {x} THEN x ELSE Max(x, SetMax(S \ {x}))

Range(n) == 0 .. (n - 1)

(* the product of two doubles *)
Mul(a, b) == (a * b) \div Scale

RECURSIVE DotRange(_, _, _)
(* r_pred += u_factors[u, factor] * i_factors[i, factor] for factor in range(n) *)
DotRange(a, b, n) ==
    IF n <= 0 THEN 0 ELSE DotRange(a, b, n - 1) + Mul(a[n - 1], b[n - 1])

(* np.dot of two vectors *)
NpDot(a, b) == DotRange(a, b, Cardinality(DOMAIN a))

(* np.dot(matrix, vector) *)
MatVec(M, v) == [r \in DOMAIN M |-> NpDot(M[r], v)]

OnesVec(n) == [j \in Range(n) |-> One]

(* np.zeros([n]) *)
ZerosVec(n) == [j \in Range(n) |-> 0]

(* np.random.normal(size=[rows, cols]): a few sample draws *)
RandomNormal(rows, cols) ==
    { [r \in Range(rows) |-> [c \in Range(cols) |-> v]] : v \in {0, One \div 2} }
    \cup { [r \in Range(rows) |-> [c \in Range(cols) |->
                IF (r + c) % 2 = 0 THEN One \div 2 ELSE -(One \div 2)]] }

----------------------------------------------------------------------------
(* The datasets fit() is given: counts, global mean, minimum rating and the
   triples sp.find(train_set.matrix) yields, in its order. *)
Triple(u, i, r) == [u |-> u, i |-> i, r |-> r]

Datasets ==
    { [name |-> "A", num_users |-> 1, num_items |-> 2, global_mean |-> 2 * One,
       min_rating |-> One,
       triples |-> <<Triple(0, 0, 3 * One), Triple(0, 1, One)>>],
      [name |-> "B", num_users |-> 2, num_items |-> 1, global_mean |-> 2 * One,
       min_rating |-> 2 * One,
       triples |-> <<Triple(0, 0, 2 * One), Triple(1, 0, 2 * One)>>] }

NoTrainSet == [name |-> "none", num_users |-> 0, num_items |-> 0,
               global_mean |-> 0, min_rating |-> 0, triples |-> <<>>]

MaxNumUsers == SetMax({d.num_users : d \in Datasets})
MaxNumItems == SetMax({d.num_items : d \in Datasets})

UserIds == 0 .. MaxNumUsers
ItemIds == 0 .. MaxNumItems

(* TrainSet.is_unk_user / is_unk_item *)
is_unk_user(ts, user_id) == user_id >= ts.num_users
is_unk_item(ts, item_id) == item_id >= ts.num_items

----------------------------------------------------------------------------
(* Construction: MF.__init__ stores its arguments unchecked and sets
   fitted = False. *)
NoRet == [op |-> "none", user |-> 0, item |-> 0, given |-> FALSE, cand |-> {},
          outcome |-> "none", value |-> 0, order |-> <<>>]

Init ==
    /\ k \in (-1) .. MaxK
    /\ max_iter \in (-1) .. MaxIter
    /\ learning_rate = One \div 2
    /\ lambda_reg \in {-(One \div 4), One \div 4}
    /\ use_bias \in BOOLEAN
    /\ early_stop \in BOOLEAN
    /\ attrs = {"fitted"}
    /\ fitted = FALSE
    /\ train_set = NoTrainSet
    /\ u_factors = <<>> /\ i_factors = <<>>
    /\ u_biases = <<>> /\ i_biases = <<>>
    /\ pc = "idle"
    /\ loc_u_factors = <<>> /\ loc_i_factors = <<>>
    /\ loc_u_biases = <<>> /\ loc_i_biases = <<>>
    /\ loss = 0 /\ last_loss = 0 /\ iter = 0 /\ pos = 0 /\ error = 0
    /\ everCompleted = FALSE
    /\ lossLog = <<>>
    /\ visits = <<>>
    /\ epochFactors = <<>>
    /\ ret = NoRet

----------------------------------------------------------------------------
(* fit(), lines 74-93: Recommender.fit stores train_set, then the factor
   matrices are drawn and the biases zeroed.  np.random.normal rejects a
   negative dimension, so with k < 0 the call raises after train_set has
   been stored. *)
FitBegin(ds) ==
    /\ pc = "idle"
    /\ k >= 0
    /\ train_set' = ds
    /\ attrs' = attrs \cup {"train_set"}
    /\ \E U \in RandomNormal(ds.num_users, k), I \in RandomNormal(ds.num_items, k) :
          /\ loc_u_factors' = U
          /\ loc_i_factors' = I
          /\ epochFactors' = <<U, I>>
    /\ loc_u_biases' = IF use_bias THEN ZerosVec(ds.num_users) ELSE <<>>
    /\ loc_i_biases' = IF use_bias THEN ZerosVec(ds.num_items) ELSE <<>>
    /\ loss' = 0 /\ last_loss' = 0 /\ iter' = 0 /\ pos' = 0 /\ error' = 0
    /\ lossLog' = <<>>
    /\ visits' = [p \in 1 .. Len(ds.triples) |-> 0]
    /\ pc' = "for"
    /\ ret' = NoRet
    /\ UNCHANGED <<config, fitted, u_factors, i_factors, u_biases, i_biases,
                   everCompleted>>

FitNegativeK(ds) ==
    /\ pc = "idle"
    /\ k < 0
    /\ train_set' = ds
    /\ attrs' = attrs \cup {"train_set"}
    /\ ret' = [NoRet EXCEPT !.op = "fit", !.outcome = "NegativeDimensions"]
    /\ UNCHANGED <<config, fitted, u_factors, i_factors, u_biases, i_biases,
                   pc, locals, hist>>

(* line 97: for iter in range(1, self.max_iter + 1), with lines 98-99 *)
RangeHasNext(it, n) == it + 1 <= n

ForIter ==
    /\ pc = "for"
    /\ IF RangeHasNext(iter, max_iter)
          THEN /\ iter' = iter + 1
               /\ last_loss' = loss
               /\ loss' = 0
               /\ pos' = 1
               /\ visits' = [p \in DOMAIN visits |-> 0]
               /\ pc' = "sgd"
          ELSE /\ pc' = "l131"
               /\ UNCHANGED <<iter, last_loss, loss, pos, visits>>
    /\ UNCHANGED <<config, model, loc_u_factors, loc_i_factors, loc_u_biases,
                   loc_i_biases, error, everCompleted, lossLog, epochFactors, ret>>

(* lines 102-106: the prediction for one interaction *)
Predict(U, I, u, i) ==
    DotRange(U[u], I[i], k)
      + (IF use_bias THEN train_set.global_mean + loc_u_biases[u] + loc_i_biases[i]
                     ELSE 0)

UpdateFactorSequential(UI, u, i, err, factor) ==
    LET U   == UI[1]
        I   == UI[2]
        u_f == U[u][factor]
        i_f == I[i][factor]
        U1  == [U EXCEPT ![u][factor] = @ + Mul(learning_rate, Mul(err, i_f) - Mul(lambda_reg, u_f))]
    IN  <<U1,
          [I EXCEPT ![i][factor] =
               @ + Mul(learning_rate, Mul(err, U1[u][factor]) - Mul(lambda_reg, i_f))]>>

(* lines 112-115: one pass of the inner loop; u_f and i_f are read before
   either matrix is written *)
UpdateFactor(UI, u, i, err, factor) ==
    LET U   == UI[1]
        I   == UI[2]
        u_f == U[u][factor]
        i_f == I[i][factor]
    IN  <<[U EXCEPT ![u][factor] = @ + Mul(learning_rate, Mul(err, i_f) - Mul(lambda_reg, u_f))],
          [I EXCEPT ![i][factor] = @ + Mul(learning_rate, Mul(err, u_f) - Mul(lambda_reg, i_f))]>>

RECURSIVE FactorLoop(_, _, _, _, _)
(* line 111: for factor in range(self.k); n passes, factor = 0 .. n-1 *)
FactorLoop(UI, u, i, err, n) ==
    IF n <= 0 THEN UI
    ELSE UpdateFactor(FactorLoop(UI, u, i, err, n - 1), u, i, err, n - 1)

(* lines 101-115: the body of the loop over zip(rid, cid, val) *)
SgdStep ==
    /\ pc = "sgd"
    /\ pos <= Len(train_set.triples)
    /\ LET t     == train_set.triples[pos]
           r_pred == Predict(loc_u_factors, loc_i_factors, t.u, t.i)
           e     == t.r - r_pred
           UI    == FactorLoop(<<loc_u_factors, loc_i_factors>>, t.u, t.i, e, k)
       IN  /\ error' = e
           /\ loss' = loss + Mul(e, e)
           /\ loc_u_factors' = UI[1]
           /\ loc_i_factors' = UI[2]
    /\ visits' = [visits EXCEPT ![pos] = @ + 1]
    /\ pos' = pos + 1
    /\ UNCHANGED <<config, model, pc, loc_u_biases, loc_i_biases, last_loss, iter,
                   everCompleted, lossLog, epochFactors, ret>>

(* line 120: self.early_stop and delta_loss < 1e-5.  For a delta_loss of
   d / Scale that is d * EpsDen < EpsNum * Scale, which for an integer d >= 0
   is d <= (EpsNum * Scale - 1) \div EpsDen *)
DeltaBelowEps(l, last) == Abs(l - last) <= (EpsNum * Scale - 1) \div EpsDen

ShouldStop(l, last) == early_stop /\ DeltaBelowEps(l, last)

(* lines 117-126: the end of an epoch *)
EpochEnd ==
    /\ pc = "sgd"
    /\ pos > Len(train_set.triples)
    /\ LET l == loss \div HalfDen
       IN  /\ loss' = l
           /\ lossLog' = Append(lossLog, l)
           /\ pc' = IF ShouldStop(l, last_loss) THEN "l131" ELSE "for"
    /\ epochFactors' = <<loc_u_factors, loc_i_factors>>
    /\ UNCHANGED <<config, model, loc_u_factors, loc_i_factors, loc_u_biases,
                   loc_i_biases, last_loss, iter, pos, error, everCompleted,
                   visits, ret>>

----------------------------------------------------------------------------
(* fit(), lines 131-136: the results are stored one attribute at a time,
   the fitted flag first. *)
Return ==
    /\ pc' = "idle"
    /\ everCompleted' = TRUE
    /\ loc_u_factors' = <<>> /\ loc_i_factors' = <<>>
    /\ loc_u_biases' = <<>> /\ loc_i_biases' = <<>>
    /\ loss' = 0 /\ last_loss' = 0 /\ iter' = 0 /\ pos' = 0 /\ error' = 0
    /\ lossLog' = <<>> /\ visits' = <<>> /\ epochFactors' = <<>>

StoreFitted ==
    /\ pc = "l131"
    /\ fitted' = TRUE
    /\ pc' = "l132"
    /\ UNCHANGED <<config, attrs, train_set, u_factors, i_factors, u_biases,
                   i_biases, locals, hist, ret>>

StoreUFactors ==
    /\ pc = "l132"
    /\ u_factors' = loc_u_factors
    /\ attrs' = attrs \cup {"u_factors"}
    /\ pc' = "l133"
    /\ UNCHANGED <<config, fitted, train_set, i_factors, u_biases, i_biases,
                   locals, hist, ret>>

StoreIFactors ==
    /\ pc = "l133"
    /\ i_factors' = loc_i_factors
    /\ attrs' = attrs \cup {"i_factors"}
    /\ IF use_bias
          THEN pc' = "l135" /\ UNCHANGED <<locals, hist>>
          ELSE Return
    /\ UNCHANGED <<config, fitted, train_set, u_factors, u_biases, i_biases, ret>>

StoreUBiases ==
    /\ pc = "l135"
    /\ u_biases' = loc_u_biases
    /\ attrs' = attrs \cup {"u_biases"}
    /\ pc' = "l136"
    /\ UNCHANGED <<config, fitted, train_set, u_factors, i_factors, i_biases,
                   locals, hist, ret>>

StoreIBiases ==
    /\ pc = "l136"
    /\ i_biases' = loc_i_biases
    /\ attrs' = attrs \cup {"i_biases"}
    /\ Return
    /\ UNCHANGED <<config, fitted, train_set, u_factors, i_factors, u_biases, ret>>

----------------------------------------------------------------------------
(* score(), lines 154-175.  The outcomes name what the call does: "ok" for a
   returned value, "NotFitted" for the ValueError of lines 155 and 195,
   "ScoreException", "EmptyCandidates" for the ValueError max() raises on an
   empty sequence, "default_rank" for the delegation of line 201. *)
ScoreRet(user_id, item_id, outcome, value) ==
    [NoRet EXCEPT !.op = "score", !.user = user_id, !.item = item_id,
                  !.outcome = outcome, !.value = value]

ScorePredAlwaysMean(user_id, item_id) ==
    LET unk_user == is_unk_user(train_set, user_id)
        unk_item == is_unk_item(train_set, item_id)
    IN  IF ~use_bias /\ (unk_user \/ unk_item)
        THEN ScoreRet(user_id, item_id, "ScoreException", 0)
        ELSE ScoreRet(user_id, item_id, "ok",
                 train_set.global_mean
                   + (IF use_bias /\ ~unk_user THEN u_biases[user_id] ELSE 0)
                   + (IF use_bias /\ ~unk_item THEN i_biases[item_id] ELSE 0)
                   + (IF ~unk_user /\ ~unk_item
                         THEN NpDot(u_factors[user_id], i_factors[item_id]) ELSE 0))

(* lines 157-175 *)
score_pred(user_id, item_id) ==
    LET unk_user == is_unk_user(train_set, user_id)
        unk_item == is_unk_item(train_set, item_id)
    IN  IF use_bias
        THEN ScoreRet(user_id, item_id, "ok",
                 train_set.global_mean
                   + (IF ~unk_user THEN u_biases[user_id] ELSE 0)
                   + (IF ~unk_item THEN i_biases[item_id] ELSE 0)
                   + (IF ~unk_user /\ ~unk_item
                         THEN NpDot(u_factors[user_id], i_factors[item_id]) ELSE 0))
        ELSE IF unk_user \/ unk_item
             THEN ScoreRet(user_id, item_id, "ScoreException", 0)
             ELSE ScoreRet(user_id, item_id, "ok",
                           NpDot(u_factors[user_id], i_factors[item_id]))

ScoreSilentDefault(user_id, item_id) ==
    IF ~fitted
    THEN ScoreRet(user_id, item_id, "ok", 0)
    ELSE score_pred(user_id, item_id)

(* lines 154-155, then the prediction *)
score(user_id, item_id) ==
    IF ~fitted
    THEN ScoreRet(user_id, item_id, "NotFitted", 0)
    ELSE score_pred(user_id, item_id)

Score(user_id, item_id) ==
    /\ pc = "idle"
    /\ ret' = score(user_id, item_id)
    /\ UNCHANGED <<config, model, pc, locals, hist>>

----------------------------------------------------------------------------
(* rank(), lines 194-216 *)
Reverse(s) == [p \in 1 .. Len(s) |-> s[Len(s) + 1 - p]]

(* ndarray.argsort(): the index orders that sort v ascending; the default
   sort is not stable, so equal entries come in any order *)
RECURSIVE SortedOrders(_, _)
SortedOrders(v, S) ==
    IF S = {} THEN { <<>> }
    ELSE UNION { { <<j>> \o s : s \in SortedOrders(v, S \ {j}) } :
                   j \in { x \in S : \A y \in S : v[x] <= v[y] } }

Argsort(v) == SortedOrders(v, DOMAIN v)

ArgsortAscending(v) == Argsort(v)

(* v.argsort()[::-1] *)
ArgsortDesc(v) == { Reverse(s) : s \in Argsort(v) }

(* intersects(x, y, assume_unique=True): the entries of x that are in y, in
   x's order *)
Intersects(x, y) == SelectSeq(x, LAMBDA e : e \in y)

RankRet(user_id, given, cand, outcome, order) ==
    [NoRet EXCEPT !.op = "rank", !.user = user_id, !.given = given, !.cand = cand,
                  !.outcome = outcome, !.order = order]

(* lines 197-203: the score vector of the catalog *)
known_item_scores(user_id) ==
    IF is_unk_user(train_set, user_id)
    THEN i_biases
    ELSE MatVec(i_factors, u_factors[user_id])

PadWithZero(scores, n) ==
    [j \in Range(n) |-> IF j < train_set.num_items THEN scores[j] ELSE 0]

(* lines 209-211: the score vector extended to n slots *)
pref_scores(scores, n) ==
    [j \in Range(n) |-> IF j < train_set.num_items THEN scores[j]
                                                   ELSE train_set.min_rating]

(* the results rank() can return; given = FALSE stands for
   candidate_item_ids = None *)
rank(user_id, given, cand) ==
    IF ~fitted
    THEN { RankRet(user_id, given, cand, "NotFitted", <<>>) }
    ELSE IF is_unk_user(train_set, user_id) /\ ~use_bias
    THEN { RankRet(user_id, given, cand, "default_rank", <<>>) }
    ELSE IF ~given
    THEN { RankRet(user_id, given, cand, "ok", o) :
               o \in ArgsortDesc(known_item_scores(user_id)) }
    ELSE IF cand = {}
    THEN { RankRet(user_id, given, cand, "EmptyCandidates", <<>>) }
    ELSE LET num_items == Max(train_set.num_items, SetMax(cand) + 1)
         IN  { RankRet(user_id, given, cand, "ok", Intersects(o, cand)) :
                  o \in ArgsortDesc(pref_scores(known_item_scores(user_id), num_items)) }

Rank(user_id, given, cand) ==
    /\ pc = "idle"
    /\ ret' \in rank(user_id, given, cand)
    /\ UNCHANGED <<config, model, pc, locals, hist>>

----------------------------------------------------------------------------
Next ==
    \/ \E ds \in Datasets : FitBegin(ds)
    \/ \E ds \in Datasets : FitNegativeK(ds)
    \/ ForIter
    \/ SgdStep
    \/ EpochEnd
    \/ StoreFitted
    \/ StoreUFactors
    \/ StoreIFactors
    \/ StoreUBiases
    \/ StoreIBiases
    \/ \E user_id \in UserIds, item_id \in ItemIds : Score(user_id, item_id)
    \/ \E user_id \in UserIds : Rank(user_id, FALSE, {})
    \/ \E user_id \in UserIds, cand \in SUBSET ItemIds : Rank(user_id, TRUE, cand)

Spec == Init /\ [][Next]_vars

----------------------------------------------------------------------------
(* Vocabulary of the properties *)
Known(user_id) == user_id < train_set.num_users
InCatalog(item_id) == item_id < train_set.num_items
Rows(M) == Cardinality(DOMAIN M)
AllZero(v) == \A j \in DOMAIN v : v[j] = 0
Storing == pc \in {"l132", "l133", "l135", "l136"}
ValidConfig == k > 0 /\ max_iter > 0 /\ lambda_reg >= 0

(* the factor dot-product of a known pair, summed over the latent dimensions *)
RECURSIVE SumOver(_, _)
SumOver(f, S) ==
    IF S = {} THEN 0
    ELSE LET x == CHOOSE y \in S : TRUE IN f[x] + SumOver(f, S \ {x})

FactorDot(user_id, item_id) ==
    SumOver([f \in DOMAIN u_factors[user_id] |->
                Mul(u_factors[user_id][f], i_factors[item_id][f])],
            DOMAIN u_factors[user_id])

(* the score vector rank() orders by: dot-products for a known user, the item
   biases for an unknown one, min_rating beyond the catalog *)
RankScore(user_id, item_id) ==
    IF ~InCatalog(item_id) THEN train_set.min_rating
    ELSE IF Known(user_id) THEN FactorDot(user_id, item_id)
    ELSE i_biases[item_id]

(* C1: on a fitted model score() follows the unknown-endpoint policy: with
   use_bias it returns global_mean, plus the user's bias if the user is
   known, plus the item's bias if the item is known, plus the dot-product if
   both are known; without use_bias it raises ScoreException if either is
   unknown and otherwise returns exactly the dot-product. *)
C1_ScorePolicy ==
    (ret.op = "score" /\ fitted) =>
        LET ku == Known(ret.user)
            ki == InCatalog(ret.item)
        IN  IF use_bias
            THEN /\ ret.outcome = "ok"
                 /\ ret.value = train_set.global_mean
                                  + (IF ku THEN u_biases[ret.user] ELSE 0)
                                  + (IF ki THEN i_biases[ret.item] ELSE 0)
                                  + (IF ku /\ ki THEN FactorDot(ret.user, ret.item)
                                                 ELSE 0)
            ELSE IF ku /\ ki
                 THEN ret.outcome = "ok" /\ ret.value = FactorDot(ret.user, ret.item)
                 ELSE ret.outcome = "ScoreException"

C1_Witness ==
    /\ ret.op = "score" /\ fitted /\ ~use_bias /\ k >= 1
    /\ Known(ret.user) /\ InCatalog(ret.item)
    /\ ret.outcome = "ok" /\ ret.value # 0

(* C2: when rank() computes a result itself (known user, or unknown user with
   use_bias; a candidate list, if given, not empty) it returns a sequence
   without duplicates, holding exactly 0..num_items-1 without candidates and
   exactly the candidates otherwise, in non-increasing order of the score
   vector it used. *)
C2_RankPermutationSorted ==
    (ret.op = "rank" /\ fitted /\ (Known(ret.user) \/ use_bias)
       /\ (ret.given => ret.cand # {})) =>
        LET o == ret.order
        IN  /\ ret.outcome = "ok"
            /\ \A p, q \in 1 .. Len(o) : p # q => o[p] # o[q]
            /\ {o[p] : p \in 1 .. Len(o)} =
                  (IF ret.given THEN ret.cand ELSE Range(train_set.num_items))
            /\ \A p, q \in 1 .. Len(o) :
                  p < q => RankScore(ret.user, o[p]) >= RankScore(ret.user, o[q])

C2_Witness ==
    /\ ret.op = "rank" /\ ret.outcome = "ok" /\ ret.given
    /\ Len(ret.order) >= 2
    /\ \E j \in ret.cand : ~InCatalog(j)
    /\ RankScore(ret.user, ret.order[1]) > RankScore(ret.user, ret.order[2])

(* C3: with candidates beyond the catalog, every out-of-catalog candidate
   comes after every in-catalog candidate in the order rank() returns
   (stated for the models of valid configuration, which the claim covers in
   any case). *)
C3_OutOfCatalogLast ==
    (ValidConfig /\ ret.op = "rank" /\ ret.outcome = "ok" /\ ret.given) =>
        \A p, q \in 1 .. Len(ret.order) :
            (~InCatalog(ret.order[p]) /\ InCatalog(ret.order[q])) => q < p

(* C4: a score() or rank() call raises the not-fitted error exactly when no
   fit() has completed before it, and a call that raises it changes nothing
   of the model. *)
C4_UntrainedGuard ==
    /\ [](ret.op \in {"score", "rank"} =>
            (ret.outcome = "NotFitted" <=> ~everCompleted))
    /\ [][ret'.outcome = "NotFitted" => UNCHANGED <<config, model>>]_vars

C4_Witness ==
    /\ ret.op = "score" /\ ret.outcome = "NotFitted"
    /\ ~everCompleted /\ "train_set" \in attrs

(* C5: in every state, also between the assignments of a running fit(), a
   model whose fitted flag is set has its factors, with as many rows as the
   users and items of the train_set it refers to, and has its biases if
   use_bias is set (stated for the models of valid configuration, which the
   claim covers in any case). *)
C5_NoPartialState ==
    (ValidConfig /\ fitted) =>
        /\ {"train_set", "u_factors", "i_factors"} \subseteq attrs
        /\ Rows(u_factors) = train_set.num_users
        /\ Rows(i_factors) = train_set.num_items
        /\ use_bias =>
              /\ {"u_biases", "i_biases"} \subseteq attrs
              /\ Rows(u_biases) = train_set.num_users
              /\ Rows(i_biases) = train_set.num_items

(* C6: no model instance has k <= 0, max_iter <= 0 or lambda_reg < 0, and no
   fit() marks the model fitted without having completed an epoch. *)
C6_InvalidConfigRejected ==
    /\ ValidConfig
    /\ pc = "l132" => Len(lossLog) >= 1

(* the loss before epoch t: the initial 0 before the first *)
C7_PrevLoss(t) == IF t = 1 THEN 0 ELSE lossLog[t - 1]

(* C7: when the epoch loop of fit() is over, at most max_iter epochs have
   completed; with early_stop the last epoch is the first whose loss is
   within 1e-5 of the loss before it (0 before the first epoch), or the
   max_iter-th if there is none; without early_stop exactly max_iter epochs
   have completed; and the factors stored are those the last epoch left. *)
C7_EpochsAndEarlyStop ==
    (pc = "l131" \/ Storing) =>
        LET n == Len(lossLog)
        IN  /\ n <= max_iter
            /\ early_stop =>
                  /\ \A t \in 1 .. (n - 1) : ~DeltaBelowEps(lossLog[t], C7_PrevLoss(t))
                  /\ n = max_iter \/ (n >= 1 /\ DeltaBelowEps(lossLog[n], C7_PrevLoss(n)))
            /\ ~early_stop => n = max_iter
            /\ pc \in {"l133", "l135", "l136"} => u_factors = epochFactors[1]
            /\ pc \in {"l135", "l136"} => i_factors = epochFactors[2]

(* The statement of C7 restricted to max_iter >= 0, where it holds: the
   epoch loop itself is as C7 describes it. *)
C7_HoldsForNonNegativeMaxIter == max_iter >= 0 => C7_EpochsAndEarlyStop

(* the simultaneous update of one interaction, in closed form *)
C8_Step ==
    LET t == train_set.triples[pos]
        U == loc_u_factors
        I == loc_i_factors
        e == t.r - (SumOver([f \in Range(k) |-> Mul(U[t.u][f], I[t.i][f])], Range(k))
                      + (IF use_bias
                            THEN train_set.global_mean + loc_u_biases[t.u]
                                   + loc_i_biases[t.i]
                            ELSE 0))
    IN  /\ error' = e
        /\ loc_u_factors' =
              [x \in DOMAIN U |-> [f \in DOMAIN U[x] |->
                  IF x = t.u
                  THEN U[x][f] + Mul(learning_rate,
                                     Mul(e, I[t.i][f]) - Mul(lambda_reg, U[x][f]))
                  ELSE U[x][f]]]
        /\ loc_i_factors' =
              [y \in DOMAIN I |-> [f \in DOMAIN I[y] |->
                  IF y = t.i
                  THEN I[y][f] + Mul(learning_rate,
                                     Mul(e, U[t.u][f]) - Mul(lambda_reg, I[y][f]))
                  ELSE I[y][f]]]

(* C8: an SGD step computes the error once from the factors before the step
   and updates row u of the user factors and row i of the item factors, each
   dimension from the pre-step values of both, leaving every other row as it
   was; and when an epoch ends every interaction has been processed exactly
   once. *)
C8_SimultaneousUpdate ==
    [][ /\ (pc = "sgd" /\ pos' = pos + 1) => C8_Step
        /\ (pc = "sgd" /\ pc' # "sgd") =>
              \A p \in 1 .. Len(train_set.triples) : visits[p] = 1 ]_vars

C8_Witness ==
    /\ pc = "sgd" /\ pos > Len(train_set.triples) /\ k >= 1 /\ error # 0
    /\ loc_u_factors # epochFactors[1]
    /\ loc_i_factors # epochFactors[2]

(* C9: with use_bias the bias vectors are all zero, in fit() at every step
   and in the stored state, and score() of a pair with an unknown endpoint
   on a fitted model returns global_mean. *)
C9_BiasesStayZero ==
    use_bias =>
        /\ AllZero(loc_u_biases) /\ AllZero(loc_i_biases)
        /\ AllZero(u_biases) /\ AllZero(i_biases)
        /\ (ret.op = "score" /\ fitted /\ ~(Known(ret.user) /\ InCatalog(ret.item))) =>
              ret.outcome = "ok" /\ ret.value = train_set.global_mean

C9_Witness ==
    /\ use_bias /\ fitted /\ "i_biases" \in attrs /\ Rows(i_biases) >= 1
    /\ ret.op = "score" /\ ret.outcome = "ok"
    /\ Known(ret.user) /\ ~InCatalog(ret.item)

(* C10: for a known user, if rank() without candidates puts item a before
   item b then score(user, a) >= score(user, b), with and without use_bias. *)
C10_RankAgreesWithScore ==
    (ret.op = "rank" /\ ret.outcome = "ok" /\ ~ret.given /\ Known(ret.user)) =>
        \A p, q \in 1 .. Len(ret.order) :
            p < q =>
                /\ score(ret.user, ret.order[p]).outcome = "ok"
                /\ score(ret.user, ret.order[q]).outcome = "ok"
                /\ score(ret.user, ret.order[p]).value
                      >= score(ret.user, ret.order[q]).value

C10_Witness ==
    /\ ret.op = "rank" /\ ret.outcome = "ok" /\ ~ret.given /\ Known(ret.user)
    /\ use_bias /\ Len(ret.order) >= 2
    /\ score(ret.user, ret.order[1]).value > score(ret.user, ret.order[2]).value

====
